---- MODULE Spec2Model ----
(***************************************************************************)
(* MultiServerMCPClient (src/src/client.ts): the session supervisor.       *)
(* The model follows the asynchronous methods of the class between their   *)
(* await points: every action is one synchronous run of code, from the     *)
(* resumption of a flow to its next await (or its return).                 *)
(*                                                                         *)
(* Flows: the caller's initializeConnections(), the caller's close(), and  *)
(* one reconnect cycle (attemptReconnect) per transport whose close hook   *)
(* started one.  The environment makes connects and discoveries succeed or *)
(* fail, lets open transports die, and delivers the onclose signal of a    *)
(* transport that close() has closed.                                      *)
(***************************************************************************)
EXTENDS Integers, Sequences, FiniteSets, TLC

\* Bounds of the model.
MaxT == 3        \* transport objects in use at one time
MaxInit == 2     \* calls of initializeConnections() in one behaviour

\* Program constants: the default parameters of attemptReconnect.
DefaultMaxAttempts == 3
DefaultDelayMs == 1000

\* An optional value (a field that may be undefined) is the empty set or a
\* singleton.
None == {}
Some(x) == {x}
Get(o) == CHOOSE x \in o : TRUE

TIds == 1..MaxT

(***************************************************************************)
(* Configuration: validated connection descriptors in configuration order. *)
(***************************************************************************)
Policy(en, mx, dl) == [enabled |-> en, maxAttempts |-> mx, delayMs |-> dl]

\* A stored descriptor.  The fields a variant does not have are None; the
\* restart / reconnect sub-object is kept in the one field restart.
Descriptor(name, transport, command, args, env, url, restart) ==
  [name |-> name, transport |-> transport, command |-> command,
   args |-> args, env |-> env, url |-> url, restart |-> restart]

StdioConnection(name, restart) ==
  Descriptor(name, "stdio", Some("node"), Some(<<>>), None, None, restart)

SSEConnection(name, reconnect) ==
  Descriptor(name, "sse", None, None, None,
             Some("https://api.example.com/mcp"), reconnect)

\* The restart / reconnect sub-objects the behaviours are explored with.
Policies ==
  { None,
    Some(Policy(FALSE, Some(1), Some(0))),
    Some(Policy(TRUE, None, None)),
    Some(Policy(TRUE, Some(0), Some(0))),
    Some(Policy(TRUE, Some(1), Some(0))),
    Some(Policy(TRUE, Some(2), Some(0))) }

\* The configurations the behaviours start from: the one-server
\* configurations with every policy, and two two-server configurations.
Configs ==
  { <<StdioConnection("fs", p)>> : p \in Policies } \cup
  { <<StdioConnection("fs", None), SSEConnection("search", None)>>,
    <<StdioConnection("fs", Some(Policy(TRUE, Some(2), Some(0)))),
      SSEConnection("search", Some(Policy(TRUE, Some(1), Some(0))))>> }

Servers == {"fs", "search"}

(***************************************************************************)
(* Raw configuration: JavaScript values as the validator receives them.    *)
(* A value carries its type tag; an object is a record of optional fields  *)
(* (None = the key is missing), an env object a sequence of its entries.   *)
(***************************************************************************)
Str(s) == [t |-> "string", v |-> s]
Num(n) == [t |-> "number", v |-> n]
Bool(b) == [t |-> "boolean", v |-> b]
Null == [t |-> "null", v |-> 0]
Undefined == [t |-> "undefined", v |-> 0]
Arr(a) == [t |-> "array", v |-> a]
Obj(o) == [t |-> "object", v |-> o]

\* JavaScript truthiness of a value, and of a possibly missing field.
Truthy(x) ==
  CASE x.t = "string" -> x.v # ""
    [] x.t = "number" -> x.v # 0
    [] x.t = "boolean" -> x.v
    [] x.t \in {"null", "undefined"} -> FALSE
    [] OTHER -> TRUE

TruthyField(o) == o # None /\ Truthy(Get(o))

\* typeof x === "object"
TypeofObject(x) == x.t \in {"object", "array", "null"}

\* field === s for a string literal s
IsLiteral(o, s) == o # None /\ Get(o).t = "string" /\ Get(o).v = s

\* The keys of a raw descriptor the model follows.
EmptyRaw ==
  [transport |-> None, command |-> None, args |-> None, env |-> None,
   url |-> None, restart |-> None, reconnect |-> None]

RawPolicy(en, mx, dl) ==
  Obj([enabled |-> en, maxAttempts |-> mx, delayMs |-> dl])

\* value.startsWith(p), value.endsWith(p)
StartsWith(s, p) == Len(s) >= Len(p) /\ SubSeq(s, 1, Len(p)) = p

EndsWith(s, p) ==
  Len(s) >= Len(p) /\ SubSeq(s, Len(s) - Len(p) + 1, Len(s)) = p

\* value.startsWith("${") && value.endsWith("}")
IsPlaceholder(s) == StartsWith(s, "${") /\ EndsWith(s, "}")

\* value.slice(2, -1)
EnvVarName(s) == SubSeq(s, 3, Len(s) - 1)

\* The environment variables the configurations refer to.
EnvNames == {"FOO"}

\* process.env[envVar], used only if (envValue): an empty value counts as
\* not set.
EnvValue(env, name) ==
  IF name \in DOMAIN env /\ env[name] # None /\ Get(env[name]) # ""
  THEN env[name]
  ELSE None

\* The replacement of one value: a string of the form ${NAME} becomes the
\* value of NAME when there is one, and everything else is left alone.
SubstValue(x, env) ==
  IF x.t = "string" /\ IsPlaceholder(x.v)
     /\ EnvValue(env, EnvVarName(x.v)) # None
  THEN Str(Get(EnvValue(env, EnvVarName(x.v))))
  ELSE x

SubstField(o, env) == IF o = None THEN None ELSE Some(SubstValue(Get(o), env))

\* The recursion into an array or a policy object of the descriptor.
SubstArray(o, env) ==
  IF o # None /\ Get(o).t = "array"
  THEN Some(Arr([i \in 1..Len(Get(o).v) |-> SubstValue(Get(o).v[i], env)]))
  ELSE SubstField(o, env)

SubstPolicy(o, env) ==
  IF o # None /\ Get(o).t = "object"
  THEN Some(Obj([enabled |-> SubstField(Get(o).v.enabled, env),
                 maxAttempts |-> SubstField(Get(o).v.maxAttempts, env),
                 delayMs |-> SubstField(Get(o).v.delayMs, env)]))
  ELSE SubstField(o, env)

\* The loop over config.env in processEnvVarsInConfig.
SubstEnvObject(o, env) ==
  IF o # None /\ Get(o).t = "object"
  THEN Some(Obj([i \in 1..Len(Get(o).v) |->
                   [key |-> Get(o).v[i].key,
                    value |-> SubstValue(Get(o).v[i].value, env)]]))
  ELSE o

\* processEnvVarsRecursively(config): every own string value, and the
\* object values other than env.
processEnvVarsRecursively(c, env) ==
  [c EXCEPT !.transport = SubstField(c.transport, env),
            !.command = SubstField(c.command, env),
            !.url = SubstField(c.url, env),
            !.args = SubstArray(c.args, env),
            !.restart = SubstPolicy(c.restart, env),
            !.reconnect = SubstPolicy(c.reconnect, env)]

\* processEnvVarsInConfig: one server's descriptor.
processEnvVarsInConfig(config, env) ==
  IF config.t # "object" THEN config
  ELSE Obj(processEnvVarsRecursively(
             [config.v EXCEPT !.env = SubstEnvObject(config.v.env, env)],
             env))

(***************************************************************************)
(* The configuration validator.                                            *)
(***************************************************************************)
Letters ==
  { "a", "b", "c", "d", "e", "f", "g", "h", "i", "j", "k", "l", "m", "n",
    "o", "p", "q", "r", "s", "t", "u", "v", "w", "x", "y", "z" }

SchemeChars == Letters \cup {"0", "1", "2", "3", "4", "5", "6", "7", "8", "9",
                             "+", "-", "."}

\* The schemes whose URLs must name a host.
SpecialSchemes == {"http", "https", "ftp", "ws", "wss"}

CharAt(s, i) == SubSeq(s, i, i)

\* new URL(config.url): an absolute URL is a scheme, a colon and, for the
\* special schemes, a host after the slashes.  The result is the protocol
\* (the scheme with its colon), or a failure.
ParseURL(s) ==
  LET colons == { i \in 1..Len(s) : CharAt(s, i) = ":" } IN
  IF colons = {} THEN [ok |-> FALSE, protocol |-> ""]
  ELSE LET i == CHOOSE k \in colons : \A j \in colons : k <= j
           scheme == SubSeq(s, 1, i - 1)
       IN
       IF /\ i > 1
          /\ CharAt(s, 1) \in Letters
          /\ \A j \in 1..(i - 1) : CharAt(s, j) \in SchemeChars
          /\ scheme \in SpecialSchemes =>
               \E j \in (i + 1)..Len(s) : CharAt(s, j) \notin {"/", "\\"}
       THEN [ok |-> TRUE, protocol |-> SubSeq(s, 1, i)]
       ELSE [ok |-> FALSE, protocol |-> ""]

\* try { new URL(url); if (!url.protocol.startsWith("http")) throw }
\* catch { throw }
UrlAccepted(s) == ParseURL(s).ok /\ StartsWith(ParseURL(s).protocol, "http")

\* The restart / reconnect block of processStdioConfig / processSSEConfig.
\* Boolean(enabled) is materialised; the numbers are copied as they are.
processPolicy(o) ==
  IF ~TruthyField(o) THEN [ok |-> TRUE, policy |-> None]
  ELSE IF ~TypeofObject(Get(o)) THEN [ok |-> FALSE, policy |-> None]
  ELSE LET r == Get(o).v
           number(f) == f # None /\ Get(f).t = "number"
       IN
       IF \/ r.enabled # None /\ Get(r.enabled).t # "boolean"
          \/ r.maxAttempts # None /\ ~number(r.maxAttempts)
          \/ r.delayMs # None /\ ~number(r.delayMs)
       THEN [ok |-> FALSE, policy |-> None]
       ELSE [ok |-> TRUE,
             policy |->
               Some(Policy(r.enabled # None /\ Get(r.enabled).v,
                           IF number(r.maxAttempts)
                           THEN Some(Get(r.maxAttempts).v) ELSE None,
                           IF number(r.delayMs)
                           THEN Some(Get(r.delayMs).v) ELSE None))]

\* The result of a rejected descriptor.
Rejected == [ok |-> FALSE, conn |-> Descriptor("", "", None, None, None, None, None)]

\* The string values of an array of strings, of an env object.
Strings(a) == [i \in 1..Len(a) |-> a[i].v]

Entries(e) == [i \in 1..Len(e) |-> [key |-> e[i].key, value |-> e[i].value.v]]

processStdioConfig(serverName, c) ==
  LET p == processPolicy(c.restart) IN
  IF \/ ~TruthyField(c.command)
     \/ Get(c.command).t # "string"
     \/ c.args # None /\ Get(c.args).t # "array"
     \/ c.args # None /\ \E i \in 1..Len(Get(c.args).v) :
                            Get(c.args).v[i].t # "string"
     \/ TruthyField(c.env) /\ Get(c.env).t # "object"
     \/ TruthyField(c.env) /\ \E i \in 1..Len(Get(c.env).v) :
                                 Get(c.env).v[i].value.t # "string"
     \/ ~p.ok
  THEN Rejected
  ELSE [ok |-> TRUE,
        conn |->
          Descriptor(serverName, "stdio", Some(Get(c.command).v),
                     IF c.args = None THEN Some(<<>>)
                     ELSE Some(Strings(Get(c.args).v)),
                     IF TruthyField(c.env) THEN Some(Entries(Get(c.env).v))
                     ELSE None,
                     None, p.policy)]

processSSEConfig(serverName, c) ==
  LET p == processPolicy(c.reconnect) IN
  IF \/ ~TruthyField(c.url)
     \/ Get(c.url).t # "string"
     \/ ~UrlAccepted(Get(c.url).v)
     \/ ~IsLiteral(c.transport, "sse")
     \/ ~p.ok
  THEN Rejected
  ELSE [ok |-> TRUE,
        conn |-> Descriptor(serverName, "sse", None, None, None,
                            Some(Get(c.url).v), p.policy)]

isStdioConnection(config) ==
  /\ config.t = "object"
  /\ config.v.transport = None \/ IsLiteral(config.v.transport, "stdio")
  /\ config.v.command # None
  /\ config.v.args = None \/ Get(config.v.args).t = "array"

isSSEConnection(config) ==
  /\ config.t = "object"
  /\ IsLiteral(config.v.transport, "sse")
  /\ config.v.url # None
  /\ Get(config.v.url).t = "string"

\* processedConnections[serverName] = ...: a key keeps the place of its
\* first assignment.
PutDescriptor(conns, d) ==
  IF \E i \in 1..Len(conns) : conns[i].name = d.name
  THEN [i \in 1..Len(conns) |-> IF conns[i].name = d.name THEN d ELSE conns[i]]
  ELSE Append(conns, d)

\* The loop of processConnections from entry i on, with the descriptors
\* processed so far.
RECURSIVE processFrom(_, _, _)
processFrom(batch, i, acc) ==
  IF i > Len(batch) THEN [ok |-> TRUE, conns |-> acc]
  ELSE LET serverName == batch[i].name
           config == batch[i].config
       IN
       IF ~TypeofObject(config) \/ config.t = "null"
       THEN processFrom(batch, i + 1, acc)
       ELSE LET r == IF isStdioConnection(config)
                     THEN processStdioConfig(serverName, config.v)
                     ELSE IF isSSEConnection(config)
                     THEN processSSEConfig(serverName, config.v)
                     ELSE Rejected
            IN
            IF r.ok THEN processFrom(batch, i + 1, PutDescriptor(acc, r.conn))
            ELSE [ok |-> FALSE, conns |-> acc]

processConnections(batch) == processFrom(batch, 1, <<>>)

\* { ...this.connections, ...processed }
RECURSIVE Merge(_, _)
Merge(conns, added) ==
  IF added = <<>> THEN conns
  ELSE Merge(PutDescriptor(conns, Head(added)), Tail(added))

\* loadConfigFromFile: the parsed file must be an object with a servers
\* key; the placeholders are replaced in the descriptors whose transport is
\* "stdio".  Reading the transport of a null descriptor raises.
loadConfigFromFile(file, env) ==
  IF \/ ~Truthy(file)
     \/ ~TypeofObject(file)
     \/ file.v.servers = None
     \/ \E i \in 1..Len(Get(file.v.servers)) :
          Get(file.v.servers)[i].config.t = "null"
  THEN [ok |-> FALSE, servers |-> <<>>]
  ELSE [ok |-> TRUE,
        servers |->
          [i \in 1..Len(Get(file.v.servers)) |->
             LET e == Get(file.v.servers)[i] IN
             IF e.config.t = "object"
                /\ IsLiteral(e.config.v.transport, "stdio")
             THEN [name |-> e.name,
                   config |-> processEnvVarsInConfig(e.config, env)]
             ELSE e]]

VARIABLES
  connections,         \* this.connections
  clients,             \* this.clients: server -> client (0 = no entry)
  serverNameToTools,   \* this.serverNameToTools, in Map insertion order
  cleanupFunctions,    \* this.cleanupFunctions: the transports they close
  transportInstances,  \* this.transportInstances: server -> transport
  transports,          \* the transport objects, by identity
  init,                \* the caller's initializeConnections() flow
  initCalls,           \* number of initializeConnections() calls made
  closing,             \* the caller's close() flow
  cyc,                 \* the attemptReconnect flows, by starting transport
  justReturned,        \* the call that returned to the caller in the last step
  processEnv,          \* process.env
  lastCall,            \* the last constructor / configuration call
  factory              \* a call of createSSETransport

vars ==
  << connections, clients, serverNameToTools, cleanupFunctions,
     transportInstances, transports, init, initCalls, closing, cyc,
     justReturned, processEnv, lastCall, factory >>

\* What the session flows leave alone.
configVars == << processEnv, lastCall, factory >>

\* A client is bound 1:1 to its transport and carries the transport's id.
NoTransport ==
  [server |-> "", state |-> "unused", hook |-> None, closedBy |-> "none",
   signal |-> "none", by |-> 0]

NoCycle ==
  [pc |-> "none", server |-> "", conn |-> None, attempts |-> 0, cur |-> 0,
   prev |-> 0, cause |-> "none", sawClose |-> FALSE, failed |-> 0,
   empty |-> 0, calls |-> 0, quiet |-> FALSE]

\* No initializeConnections() call is in progress and none has been made.
NoInit ==
  [pc |-> "idle", idx |-> 0, cur |-> 0, result |-> "none", error |-> None]

\* new MCPClientError(message, serverName)
MCPClientError(message, serverName) ==
  [message |-> message, serverName |-> serverName]

\* A call of the constructor or of a configuration method: what it was
\* given (an inline batch, or a parsed file), whether it returned, and the
\* stored configuration it found.
Call(op, batch, file, ok, before, n) ==
  [op |-> op, batch |-> batch, file |-> file, ok |-> ok, before |-> before,
   n |-> n]

\* No file was given, or there is none.
NoFile == Undefined

NoCall == Call("constructor", <<>>, NoFile, TRUE, <<>>, 0)

\* A call of createSSETransport: its arguments, the event-stream packages
\* that can be imported, the imports tried so far, the implementation
\* installed as globalThis.EventSource, and the transport it returned.
FactoryCall(pc, url, headers, useNodeEventSource, available) ==
  [pc |-> pc, url |-> url, headers |-> headers,
   useNodeEventSource |-> useNodeEventSource, available |-> available,
   tried |-> <<>>, eventSource |-> "default", result |-> None]

\* No call of createSSETransport is followed.
NoFactory == FactoryCall("none", "", None, None, {})

\* The maps and the ledger as one value, so that the synchronous runs of
\* code can be composed.
Shared ==
  [clients |-> clients, tools |-> serverNameToTools,
   cleanup |-> cleanupFunctions, instances |-> transportInstances,
   tr |-> transports]

Commit(S) ==
  /\ clients' = S.clients
  /\ serverNameToTools' = S.tools
  /\ cleanupFunctions' = S.cleanup
  /\ transportInstances' = S.instances
  /\ transports' = S.tr

\* The variables other than the configuration, after construction.
Fresh ==
  /\ clients = [s \in Servers |-> 0]
  /\ serverNameToTools = <<>>
  /\ cleanupFunctions = <<>>
  /\ transportInstances = [s \in Servers |-> 0]
  /\ transports = [t \in TIds |-> NoTransport]
  /\ init = NoInit
  /\ initCalls = 0
  /\ closing = [pc |-> "idle", idx |-> 0]
  /\ cyc = [t \in TIds |-> NoCycle]
  /\ justReturned = "none"

Init ==
  /\ connections \in Configs
  /\ processEnv = [n \in EnvNames |-> None]
  /\ lastCall = NoCall
  /\ factory = NoFactory
  /\ Fresh

(***************************************************************************)
(* Helpers on the maps.                                                    *)
(***************************************************************************)
Conn(i) == connections[i]

\* restart?.enabled / reconnect?.enabled
Enabled(restart) == restart # None /\ Get(restart).enabled

HasTools(tools, s) == \E i \in 1..Len(tools) : tools[i].server = s

\* Map.set on the tool registry: an existing key keeps its position.
SetTools(tools, s, c) ==
  IF HasTools(tools, s)
  THEN [i \in 1..Len(tools) |->
          IF tools[i].server = s THEN [server |-> s, client |-> c]
          ELSE tools[i]]
  ELSE Append(tools, [server |-> s, client |-> c])

cleanupServerResources(S, s) ==
  [S EXCEPT !.clients[s] = 0,
            !.tools = SelectSeq(S.tools, LAMBDA e : e.server # s),
            !.instances[s] = 0]

\* The identities a new transport object of server s can take: one never
\* used, or that of an object that failed to connect and that nothing but
\* the map entry about to be overwritten refers to any more.
FreeIds(S, s) ==
  { t \in TIds :
      \/ S.tr[t].state = "unused"
      \/ /\ S.tr[t].state = "failed"
         /\ \/ S.tr[t].server = s
            \/ S.instances[S.tr[t].server] # t }

Min(X) == CHOOSE x \in X : \A y \in X : x <= y

NewId(S, s) == Min(FreeIds(S, s))

\* new StdioClientTransport / SSEClientTransport, then
\* this.transportInstances.set(serverName, transport).
NewTransport(S, s, by) ==
  LET t == NewId(S, s) IN
  [S EXCEPT !.tr[t] = [NoTransport EXCEPT !.server = s, !.state = "new",
                                          !.by = by],
            !.instances[s] = t]

\* Faulty variant: the hook is wired whenever a restart object is present.
ShouldInstallHookIfPresent(conn) == conn.restart # None

\* if (restart?.enabled) this.setupStdioRestart(...)
ShouldInstallHook(conn) == Enabled(conn.restart)

\* Faulty variant: the session is opened without a close action.
ConnectedWithoutCleanup(S, t, conn) ==
  [S EXCEPT !.tr[t].state = "open",
            !.tr[t].hook = IF ShouldInstallHook(conn) THEN Some(conn)
                           ELSE None,
            !.clients[conn.name] = t]

\* The code after a successful client.connect(transport), up to the call of
\* loadToolsForServer.
Connected(S, t, conn) ==
  [S EXCEPT !.tr[t].state = "open",
            !.tr[t].hook = IF ShouldInstallHook(conn) THEN Some(conn)
                           ELSE None,
            !.clients[conn.name] = t,
            !.cleanup = Append(S.cleanup, t)]

\* Faulty variant: a failed connect rolls the earlier sessions back.
ConnectFailedRollsBack(S, t) ==
  [S EXCEPT !.tr[t].state = "failed",
            !.clients = [s \in Servers |-> 0],
            !.tools = <<>>]

\* client.connect(transport) raised.
ConnectFailed(S, t) == [S EXCEPT !.tr[t].state = "failed"]

\* this.serverNameToTools.set(serverName, tools)
ToolsLoaded(S, s, t) == [S EXCEPT !.tools = SetTools(S.tools, s, t)]

\* loadMcpTools(serverName, client) lists the tools through the client's
\* transport: it can succeed only while that transport is open.
CanDiscover(t) == transports[t].state = "open"

\* The synchronous start of initializeStdioConnection /
\* initializeSSEConnection: the stdio variant constructs its transport at
\* once, the sse variant first awaits createSSETransport.
BeginConnection(S, conn, by) ==
  IF conn.transport = "stdio"
  THEN IF FreeIds(S, conn.name) # {}
       THEN [S |-> NewTransport(S, conn.name, by), pc |-> "connecting",
             cur |-> NewId(S, conn.name), ok |-> TRUE]
       ELSE [S |-> S, pc |-> "connecting", cur |-> 0, ok |-> FALSE]
  ELSE [S |-> S, pc |-> "creating", cur |-> 0, ok |-> TRUE]

(***************************************************************************)
(* attemptReconnect.                                                       *)
(***************************************************************************)
\* The default parameters: maxAttempts = 3, delayMs = 1000.
ParamMaxAttempts(p) ==
  IF p.maxAttempts = None THEN Some(DefaultMaxAttempts) ELSE p.maxAttempts

ParamDelayMs(p) ==
  IF p.delayMs = None THEN DefaultDelayMs ELSE Get(p.delayMs)

\* Faulty variant: an off-by-one loop bound.
LoopConditionInclusive(mx, attempts) == mx = None \/ attempts <= Get(mx)

\* maxAttempts === undefined || attempts < maxAttempts
LoopCondition(mx, attempts) == mx = None \/ attempts < Get(mx)

\* The head of the while loop, run after the eviction and after every
\* attempt that did not leave the server connected.
LoopHead(S, rec, id) ==
  LET conn == Get(rec.conn)
      p == Get(conn.restart)
  IN
  IF LoopCondition(ParamMaxAttempts(p), rec.attempts)
  THEN LET r1 == [rec EXCEPT !.attempts = rec.attempts + 1] IN
       IF ParamDelayMs(p) # 0
       THEN [S |-> S, rec |-> [r1 EXCEPT !.pc = "wait"], ok |-> TRUE]
       ELSE LET b == BeginConnection(S, conn, id) IN
            [S |-> b.S, rec |-> [r1 EXCEPT !.pc = b.pc, !.cur = b.cur],
             ok |-> b.ok]
  ELSE [S |-> S,
        rec |-> [rec EXCEPT !.pc = "gaveup", !.cur = 0,
                            !.calls = initCalls,
                            !.quiet = (init.pc = "idle")],
        ok |-> TRUE]

\* Faulty variant: the error of a failed attempt leaves attemptReconnect.
AttemptFailedPropagates(S, rec, id) ==
  [S |-> S,
   rec |-> [rec EXCEPT !.pc = "raised", !.failed = rec.failed + 1,
                       !.cur = 0],
   ok |-> TRUE]

\* catch (error) { log } inside the loop: the next iteration follows.
AttemptFailed(S, rec, id) ==
  LoopHead(S, [rec EXCEPT !.failed = rec.failed + 1, !.cur = 0], id)

\* Faulty variant: the attempt counts as connected without the check.
AttemptReturnedUnchecked(S, rec, id) ==
  [S |-> S, rec |-> [rec EXCEPT !.pc = "connected", !.cur = 0], ok |-> TRUE]

\* if (this.clients.has(serverName)) connected = true
AttemptReturned(S, rec, id) ==
  IF S.clients[rec.server] # 0
  THEN [S |-> S, rec |-> [rec EXCEPT !.pc = "connected", !.cur = 0],
        ok |-> TRUE]
  ELSE LoopHead(S, [rec EXCEPT !.cur = 0, !.empty = rec.empty + 1], id)

\* "Only attempt restart if we haven't cleaned up"
HookGuard(S, s) == S.clients[s] # 0

\* Faulty variant: the attempt counter is kept across the cycles of a server.
RunHookCumulative(S, t) ==
  LET tr == S.tr[t]
      s == tr.server
  IN
  IF tr.hook # None /\ HookGuard(S, s)
  THEN LoopHead(cleanupServerResources(S, s),
                [NoCycle EXCEPT !.server = s, !.conn = tr.hook,
                                !.prev = S.clients[s],
                                !.cause = tr.closedBy,
                                !.attempts =
                                  Cardinality({c \in TIds :
                                                 cyc[c].server = s})],
                t)
  ELSE [S |-> S, rec |-> NoCycle, ok |-> TRUE]

\* Faulty variant: a closure without a hook evicts the server all the same.
RunHookEvictsAlways(S, t) ==
  LET tr == S.tr[t]
      s == tr.server
  IN
  IF tr.hook # None /\ HookGuard(S, s)
  THEN LoopHead(cleanupServerResources(S, s),
                [NoCycle EXCEPT !.server = s, !.conn = tr.hook,
                                !.prev = S.clients[s],
                                !.cause = tr.closedBy],
                t)
  ELSE [S |-> cleanupServerResources(S, s), rec |-> NoCycle, ok |-> TRUE]

\* transport.onclose as installed by setupStdioRestart / setupSSEReconnect:
\* the start of attemptReconnect up to its first await.
RunHook(S, t) ==
  LET tr == S.tr[t]
      s == tr.server
  IN
  IF tr.hook # None /\ HookGuard(S, s)
  THEN LoopHead(cleanupServerResources(S, s),
                [NoCycle EXCEPT !.server = s, !.conn = tr.hook,
                                !.prev = S.clients[s],
                                !.cause = tr.closedBy],
                t)
  ELSE [S |-> S, rec |-> NoCycle, ok |-> TRUE]

InProgress(pc) == pc \in {"wait", "creating", "connecting", "discovering"}


(***************************************************************************)
(* initializeConnections(): the configured servers one after the other.    *)
(***************************************************************************)
\* The errors of initializeStdioConnection / initializeSSEConnection.  The
\* sse variant wraps whatever is raised inside it, the error of
\* loadToolsForServer included.
ConnectError(conn) ==
  IF conn.transport = "stdio"
  THEN MCPClientError("Failed to connect to stdio server", Some(conn.name))
  ELSE MCPClientError("Failed to create SSE transport", Some(conn.name))

ToolsError(conn) ==
  IF conn.transport = "stdio"
  THEN MCPClientError("Failed to load tools from server", None)
  ELSE MCPClientError("Failed to create SSE transport", Some(conn.name))

InitRaise(error) ==
  init' = [pc |-> "idle", idx |-> init.idx, cur |-> 0, result |-> "raised",
           error |-> Some(error)]

\* The constructor returned an object on which methods can be called.
Constructed == lastCall.n > 0 \/ lastCall.ok

\* initializeConnections() over the stored configuration conns, up to its
\* first await: with nothing configured it returns a new, empty map.
BeginInitialize(conns) ==
  /\ Constructed
  /\ init.pc = "idle"
  /\ initCalls < MaxInit
  /\ IF conns = <<>>
     THEN /\ Commit(Shared)
          /\ init' = [NoInit EXCEPT !.result = "fresh"]
          /\ justReturned' = "init"
     ELSE LET b == BeginConnection(Shared, conns[1], 0) IN
            /\ b.ok
            /\ Commit(b.S)
            /\ init' = [NoInit EXCEPT !.pc = b.pc, !.idx = 1, !.cur = b.cur]
            /\ justReturned' = "none"
  /\ initCalls' = initCalls + 1
  /\ UNCHANGED << closing, cyc >>

InitializeConnections ==
  /\ BeginInitialize(connections)
  /\ UNCHANGED connections
  /\ UNCHANGED configVars

\* createSSETransport returned: the transport is stored, connect is awaited.
InitCreated ==
  /\ init.pc = "creating"
  /\ FreeIds(Shared, Conn(init.idx).name) # {}
  /\ Commit(NewTransport(Shared, Conn(init.idx).name, 0))
  /\ init' = [init EXCEPT !.pc = "connecting",
                          !.cur = NewId(Shared, Conn(init.idx).name)]
  /\ UNCHANGED << connections, initCalls, closing, cyc >>
  /\ justReturned' = "none"
  /\ UNCHANGED configVars

InitCreateFailed ==
  /\ init.pc = "creating"
  /\ InitRaise(ConnectError(Conn(init.idx)))
  /\ UNCHANGED << connections, clients, serverNameToTools, cleanupFunctions,
                  transportInstances, transports, initCalls, closing,
                  cyc >>
  /\ justReturned' = "none"
  /\ UNCHANGED configVars

InitConnectOk ==
  /\ init.pc = "connecting"
  /\ Commit(Connected(Shared, init.cur, Conn(init.idx)))
  /\ init' = [init EXCEPT !.pc = "discovering"]
  /\ UNCHANGED << connections, initCalls, closing, cyc >>
  /\ justReturned' = "none"
  /\ UNCHANGED configVars

InitConnectFailed ==
  /\ init.pc = "connecting"
  /\ Commit(ConnectFailed(Shared, init.cur))
  /\ InitRaise(ConnectError(Conn(init.idx)))
  /\ UNCHANGED << connections, initCalls, closing, cyc >>
  /\ justReturned' = "none"
  /\ UNCHANGED configVars

\* loadToolsForServer returned: the next server, or return
\* this.serverNameToTools.
InitToolsLoaded ==
  /\ init.pc = "discovering"
  /\ CanDiscover(init.cur)
  /\ LET S1 == ToolsLoaded(Shared, Conn(init.idx).name, init.cur) IN
       IF init.idx < Len(connections)
       THEN LET b == BeginConnection(S1, Conn(init.idx + 1), 0) IN
              /\ b.ok
              /\ Commit(b.S)
              /\ init' = [init EXCEPT !.pc = b.pc, !.idx = init.idx + 1,
                                      !.cur = b.cur]
              /\ justReturned' = "none"
       ELSE /\ Commit(S1)
            /\ init' = [pc |-> "idle", idx |-> init.idx, cur |-> 0,
                        result |-> "alias", error |-> None]
            /\ justReturned' = "init"
  /\ UNCHANGED << connections, initCalls, closing, cyc >>
  /\ UNCHANGED configVars

InitToolsFailed ==
  /\ init.pc = "discovering"
  /\ InitRaise(ToolsError(Conn(init.idx)))
  /\ UNCHANGED << connections, clients, serverNameToTools, cleanupFunctions,
                  transportInstances, transports, initCalls, closing,
                  cyc >>
  /\ justReturned' = "none"
  /\ UNCHANGED configVars

(***************************************************************************)
(* The reconnect cycles.                                                   *)
(***************************************************************************)
ApplyCycle(c, r) ==
  /\ r.ok
  /\ Commit(r.S)
  /\ cyc' = [cyc EXCEPT ![c] = r.rec]

\* The delay has elapsed: the attempt starts.
CycleTimer(c) ==
  /\ cyc[c].pc = "wait"
  /\ LET b == BeginConnection(Shared, Get(cyc[c].conn), c) IN
       ApplyCycle(c, [S |-> b.S,
                      rec |-> [cyc[c] EXCEPT !.pc = b.pc, !.cur = b.cur],
                      ok |-> b.ok])
  /\ UNCHANGED << connections, init, initCalls, closing >>
  /\ justReturned' = "none"
  /\ UNCHANGED configVars

CycleCreated(c) ==
  /\ cyc[c].pc = "creating"
  /\ FreeIds(Shared, cyc[c].server) # {}
  /\ ApplyCycle(c, [S |-> NewTransport(Shared, cyc[c].server, c),
                    rec |-> [cyc[c] EXCEPT !.pc = "connecting",
                                           !.cur = NewId(Shared,
                                                         cyc[c].server)],
                    ok |-> TRUE])
  /\ UNCHANGED << connections, init, initCalls, closing >>
  /\ justReturned' = "none"
  /\ UNCHANGED configVars

CycleCreateFailed(c) ==
  /\ cyc[c].pc = "creating"
  /\ ApplyCycle(c, AttemptFailed(Shared, cyc[c], c))
  /\ UNCHANGED << connections, init, initCalls, closing >>
  /\ justReturned' = "none"
  /\ UNCHANGED configVars

CycleConnectOk(c) ==
  /\ cyc[c].pc = "connecting"
  /\ ApplyCycle(c, [S |-> Connected(Shared, cyc[c].cur, Get(cyc[c].conn)),
                    rec |-> [cyc[c] EXCEPT !.pc = "discovering"],
                    ok |-> TRUE])
  /\ UNCHANGED << connections, init, initCalls, closing >>
  /\ justReturned' = "none"
  /\ UNCHANGED configVars

CycleConnectFailed(c) ==
  /\ cyc[c].pc = "connecting"
  /\ ApplyCycle(c, AttemptFailed(ConnectFailed(Shared, cyc[c].cur),
                                 cyc[c], c))
  /\ UNCHANGED << connections, init, initCalls, closing >>
  /\ justReturned' = "none"
  /\ UNCHANGED configVars

CycleToolsLoaded(c) ==
  /\ cyc[c].pc = "discovering"
  /\ CanDiscover(cyc[c].cur)
  /\ ApplyCycle(c, AttemptReturned(
                     ToolsLoaded(Shared, cyc[c].server, cyc[c].cur),
                     cyc[c], c))
  /\ UNCHANGED << connections, init, initCalls, closing >>
  /\ justReturned' = "none"
  /\ UNCHANGED configVars

CycleToolsFailed(c) ==
  /\ cyc[c].pc = "discovering"
  /\ ApplyCycle(c, AttemptFailed(Shared, cyc[c], c))
  /\ UNCHANGED << connections, init, initCalls, closing >>
  /\ justReturned' = "none"
  /\ UNCHANGED configVars

(***************************************************************************)
(* Transport closure.                                                      *)
(***************************************************************************)
\* An open transport dies (the process exits, the stream drops): its
\* onclose handler runs.
TransportCloses(t) ==
  /\ transports[t].state = "open"
  /\ ApplyCycle(t, RunHook([Shared EXCEPT !.tr[t].state = "closed",
                                          !.tr[t].closedBy = "env",
                                          !.tr[t].signal = "fired"], t))
  /\ UNCHANGED << connections, init, initCalls, closing >>
  /\ justReturned' = "none"
  /\ UNCHANGED configVars

\* The onclose handler of a transport that close() has closed runs.
DeliverClose(t) ==
  /\ transports[t].signal = "pending"
  /\ ApplyCycle(t, RunHook([Shared EXCEPT !.tr[t].signal = "fired"], t))
  /\ UNCHANGED << connections, init, initCalls, closing >>
  /\ justReturned' = "none"
  /\ UNCHANGED configVars

(***************************************************************************)
(* close().                                                                *)
(***************************************************************************)
\* A cleanup function: await transport.close().  Closing a transport that
\* is already closed does nothing.
RunCleanup(S, i) ==
  LET t == S.cleanup[i] IN
  IF S.tr[t].state = "open"
  THEN [S EXCEPT !.tr[t].state = "closed", !.tr[t].closedBy = "close",
                 !.tr[t].signal = "pending"]
  ELSE S

\* Faulty variant: the transport map is not cleared.
ClearAllButTransports(S) ==
  [S EXCEPT !.cleanup = <<>>,
            !.clients = [s \in Servers |-> 0],
            !.tools = <<>>]

\* The statements after the loop.
ClearAll(S) ==
  [S EXCEPT !.cleanup = <<>>,
            !.clients = [s \in Servers |-> 0],
            !.tools = <<>>,
            !.instances = [s \in Servers |-> 0]]

\* One iteration of the for loop over this.cleanupFunctions (the array is
\* read anew at every iteration), or the end of the loop.
CloseFrom(S, i) ==
  IF i <= Len(S.cleanup)
  THEN /\ Commit(RunCleanup(S, i))
       /\ closing' = [pc |-> "running", idx |-> i]
       /\ justReturned' = "none"
       /\ UNCHANGED cyc
  ELSE /\ Commit(ClearAll(S))
       /\ closing' = [pc |-> "idle", idx |-> 0]
       /\ justReturned' = "close"
       /\ cyc' = [c \in TIds |->
                    IF InProgress(cyc[c].pc)
                    THEN [cyc[c] EXCEPT !.sawClose = TRUE]
                    ELSE cyc[c]]

Close ==
  /\ closing.pc = "idle"
  /\ CloseFrom(Shared, 1)
  /\ UNCHANGED << connections, init, initCalls >>
  /\ UNCHANGED configVars

CloseResume ==
  /\ closing.pc = "running"
  /\ CloseFrom(Shared, closing.idx + 1)
  /\ UNCHANGED << connections, init, initCalls >>
  /\ UNCHANGED configVars

Next ==
  \/ InitializeConnections
  \/ InitCreated
  \/ InitCreateFailed
  \/ InitConnectOk
  \/ InitConnectFailed
  \/ InitToolsLoaded
  \/ InitToolsFailed
  \/ \E c \in TIds : CycleTimer(c)
  \/ \E c \in TIds : CycleCreated(c)
  \/ \E c \in TIds : CycleCreateFailed(c)
  \/ \E c \in TIds : CycleConnectOk(c)
  \/ \E c \in TIds : CycleConnectFailed(c)
  \/ \E c \in TIds : CycleToolsLoaded(c)
  \/ \E c \in TIds : CycleToolsFailed(c)
  \/ \E t \in TIds : TransportCloses(t)
  \/ \E t \in TIds : DeliverClose(t)
  \/ Close
  \/ CloseResume

Spec == Init /\ [][Next]_vars

(***************************************************************************)
(* close() with cleanup actions that raise.                                *)
(***************************************************************************)
\* Faulty variant: the error of a cleanup action leaves close().
CleanupFailedPropagates(S, i) == [S |-> S, pc |-> "raised", idx |-> i]

\* catch (error) { log }: the loop goes on with the next action.
CleanupFailed(S, i) == [S |-> S, pc |-> "running", idx |-> i]

\* close() is called, or resumes, and transport.close() in the cleanup
\* action it runs next raises, leaving the transport as it was.
CloseCleanupRaises ==
  /\ closing.pc \in {"idle", "running"}
  /\ LET i == IF closing.pc = "running" THEN closing.idx + 1 ELSE 1
         r == CleanupFailed(Shared, i)
     IN
     /\ i <= Len(cleanupFunctions)
     /\ Commit(r.S)
     /\ closing' = [pc |-> r.pc, idx |-> r.idx]
  /\ justReturned' = "none"
  /\ UNCHANGED << connections, init, initCalls, cyc >>
  /\ UNCHANGED configVars

NextClose ==
  \/ Next
  \/ CloseCleanupRaises

SpecClose == Init /\ [][NextClose]_vars

(***************************************************************************)
(* The configuration interface: the constructor, addConnections,           *)
(* addConfigFromFile, connectToServerViaStdio and connectToServerViaSSE,   *)
(* called by a caller that awaits each initialisation before its next      *)
(* call, over transports that do not close on their own.                   *)
(***************************************************************************)
\* Bound: configuration calls after the constructor in one behaviour.
MaxConfigCalls == 2

ProcessEnvs == [EnvNames -> {None, Some(""), Some("secret")}]

Command == Some(Str("node"))

RawLocal == Obj([EmptyRaw EXCEPT !.command = Command])

\* A LocalProcess descriptor with an env placeholder, with or without the
\* transport key.
RawLocalEnv(transport) ==
  Obj([EmptyRaw EXCEPT
         !.transport = transport,
         !.command = Command,
         !.args = Some(Arr(<<Str("fs-server.js")>>)),
         !.env = Some(Obj(<<[key |-> "API_KEY", value |-> Str("${FOO}")]>>))])

RawLocalRestart(restart) ==
  Obj([EmptyRaw EXCEPT !.command = Command, !.restart = Some(restart)])

RawRemote(url) ==
  Obj([EmptyRaw EXCEPT !.transport = Some(Str("sse")), !.url = Some(url)])

RawRemoteReconnect(reconnect) ==
  Obj([EmptyRaw EXCEPT !.transport = Some(Str("sse")),
                       !.url = Some(Str("https://api.example.com/mcp")),
                       !.reconnect = Some(reconnect)])

Enabled2(mx, dl) == RawPolicy(Some(Bool(TRUE)), Some(Num(mx)), Some(Num(dl)))

\* Raw descriptors given under the name "fs".
LocalRaws ==
  { RawLocal,
    RawLocalEnv(None),
    RawLocalEnv(Some(Str("stdio"))),
    RawLocalRestart(Enabled2(2, 0)),
    RawLocalRestart(Enabled2(0, 0)),
    RawLocalRestart(Enabled2(0 - 1, 0)),
    RawLocalRestart(Enabled2(1, 0 - 1)),
    RawLocalRestart(RawPolicy(None, Some(Num(2)), None)),
    RawLocalRestart(RawPolicy(Some(Str("true")), None, None)),
    RawLocalRestart(RawPolicy(Some(Bool(TRUE)), Some(Str("3")), None)),
    RawLocalRestart(RawPolicy(Some(Bool(TRUE)), None, Some(Str("0")))),
    RawLocalRestart(Str("yes")),
    Obj([EmptyRaw EXCEPT !.command = Some(Num(5))]),
    Obj([EmptyRaw EXCEPT !.command = Some(Str(""))]),
    Obj([EmptyRaw EXCEPT !.command = Command, !.args = Some(Str("x"))]),
    Obj([EmptyRaw EXCEPT !.command = Command,
                         !.args = Some(Arr(<<Num(1)>>))]),
    Obj([EmptyRaw EXCEPT !.command = Command, !.env = Some(Str("x"))]),
    Obj([EmptyRaw EXCEPT
           !.command = Command,
           !.env = Some(Obj(<<[key |-> "PORT", value |-> Num(80)]>>))]),
    Obj([EmptyRaw EXCEPT !.transport = Some(Str("ws")), !.command = Command]),
    Obj(EmptyRaw),
    Null,
    Str("node fs-server.js") }

\* Raw descriptors given under the name "search".
RemoteRaws ==
  { RawRemote(Str("https://api.example.com/mcp")),
    RawRemote(Str("http://localhost")),
    RawRemote(Str("httpx://host")),
    RawRemote(Str("ftp://host/x")),
    RawRemote(Str("not a url")),
    RawRemote(Str("https://")),
    RawRemote(Num(7)),
    RawRemoteReconnect(Enabled2(1, 0)),
    RawRemoteReconnect(Enabled2(0, 0 - 1)),
    Obj([EmptyRaw EXCEPT !.transport = Some(Str("sse"))]),
    Obj([EmptyRaw EXCEPT !.url = Some(Str("https://api.example.com/mcp"))]) }

Entry(name, config) == [name |-> name, config |-> config]

\* The batches a constructor is given.
Batches ==
  {<<>>} \cup
  { <<Entry("fs", r)>> : r \in LocalRaws } \cup
  { <<Entry("search", r)>> : r \in RemoteRaws } \cup
  { <<Entry("fs", RawLocal), Entry("search", r)>> :
      r \in { RawRemote(Str("https://api.example.com/mcp")),
              RawRemote(Str("ftp://host/x")), Null } } \cup
  { <<Entry("fs", Str("node fs-server.js")),
      Entry("search", RawRemote(Str("http://localhost")))>> }

\* The batches addConnections is given.
AddBatches ==
  { <<Entry("fs", RawLocalRestart(Enabled2(2, 0)))>>,
    <<Entry("fs", RawLocalEnv(None))>>,
    <<Entry("fs", Obj(EmptyRaw))>>,
    <<Entry("fs", Null)>>,
    <<Entry("search", RawRemote(Str("http://localhost")))>>,
    <<Entry("fs", RawLocalRestart(Enabled2(0, 0))),
      Entry("search", RawRemote(Str("ftp://host/x")))>>,
    <<Entry("search", Str("http://localhost")),
      Entry("fs", RawLocalEnv(Some(Str("stdio"))))>> }

\* A parsed configuration file.
File(servers) == Obj([servers |-> servers])

Files ==
  { Null, File(None) } \cup
  { File(Some(b)) :
      b \in { <<Entry("fs", RawLocalEnv(Some(Str("stdio"))))>>,
              <<Entry("fs", RawLocalEnv(None))>>,
              <<Entry("fs", RawLocal),
                Entry("search", RawRemote(Str("ftp://host/x")))>>,
              <<Entry("fs", Str("node fs-server.js"))>>,
              <<Entry("fs", Null)>> } }

\* What a configuration call leaves alone.
sessionVars ==
  << clients, serverNameToTools, cleanupFunctions, transportInstances,
     transports, init, initCalls, closing, cyc >>

\* new MultiServerMCPClient(connections)
Constructor(batch) ==
  LET p == processConnections(batch) IN
  /\ connections = IF p.ok THEN p.conns ELSE <<>>
  /\ lastCall = Call("constructor", batch, NoFile, p.ok, <<>>, 0)

\* loadConfigFromFile, then processConnections(config.servers).
LoadAndProcess(file, env) ==
  LET l == loadConfigFromFile(file, env) IN
  IF l.ok THEN processConnections(l.servers)
  ELSE [ok |-> FALSE, conns |-> <<>>]

\* new MultiServerMCPClient(): mcp.json in the working directory is loaded
\* if it is there.
ConstructorDefault(file) ==
  LET p == IF file = NoFile THEN [ok |-> TRUE, conns |-> <<>>]
           ELSE LoadAndProcess(file, processEnv)
  IN
  /\ connections = IF p.ok THEN p.conns ELSE <<>>
  /\ lastCall = Call("constructor", <<>>, file, p.ok, <<>>, 0)

\* MultiServerMCPClient.fromConfigFile(configPath), with no mcp.json in
\* the working directory.
FromConfigFile(file) ==
  LET p == LoadAndProcess(file, processEnv) IN
  /\ connections = IF p.ok THEN p.conns ELSE <<>>
  /\ lastCall = Call("fromConfigFile", <<>>, file, p.ok, <<>>, 0)

InitConfig ==
  /\ processEnv \in ProcessEnvs
  /\ \/ \E batch \in Batches : Constructor(batch)
     \/ \E file \in Files \cup {NoFile} : ConstructorDefault(file)
     \/ \E file \in Files : FromConfigFile(file)
  /\ factory = NoFactory
  /\ Fresh

\* The caller is between two calls.
CallerIdle ==
  /\ Constructed
  /\ init.pc = "idle"
  /\ closing.pc = "idle"
  /\ lastCall.n < MaxConfigCalls

\* Faulty variant: the descriptors validated before the failure are merged.
AddResultPartial(conns, p) == Merge(conns, p.conns)

\* The assignment to this.connections after processConnections: it is
\* reached only when nothing was raised.
AddResult(conns, p) == IF p.ok THEN Merge(conns, p.conns) ELSE conns

AddConnections(batch) ==
  /\ CallerIdle
  /\ LET p == processConnections(batch) IN
       /\ connections' = AddResult(connections, p)
       /\ lastCall' = Call("addConnections", batch, NoFile, p.ok,
                           connections, lastCall.n + 1)
  /\ justReturned' = "none"
  /\ UNCHANGED sessionVars
  /\ UNCHANGED << processEnv, factory >>

AddConfigFromFile(file) ==
  /\ CallerIdle
  /\ LET p == LoadAndProcess(file, processEnv) IN
       /\ connections' = AddResult(connections, p)
       /\ lastCall' = Call("addConfigFromFile", <<>>, file, p.ok,
                           connections, lastCall.n + 1)
  /\ justReturned' = "none"
  /\ UNCHANGED sessionVars
  /\ UNCHANGED << processEnv, factory >>

\* The descriptor is stored as it is given and replaces the configuration;
\* initializeConnections() follows in the same run.
ConnectTo(op, descriptor) ==
  /\ CallerIdle
  /\ connections' = <<descriptor>>
  /\ BeginInitialize(<<descriptor>>)
  /\ lastCall' = Call(op, <<>>, NoFile, TRUE, connections, lastCall.n + 1)
  /\ UNCHANGED << processEnv, factory >>

ConnectToServerViaStdio(serverName, command, restart) ==
  ConnectTo("connectToServerViaStdio",
            Descriptor(serverName, "stdio", Some(command), Some(<<>>), None,
                       None, restart))

ConnectToServerViaSSE(serverName, url, reconnect) ==
  ConnectTo("connectToServerViaSSE",
            Descriptor(serverName, "sse", None, None, None, Some(url),
                       reconnect))

\* The arguments the connectToServerVia... calls are explored with.
CallPolicies == { None, Some(Policy(TRUE, Some(1), Some(0))) }

NextConfig ==
  \/ \E batch \in AddBatches : AddConnections(batch)
  \/ \E file \in Files : AddConfigFromFile(file)
  \/ \E s \in Servers, command \in {"node", ""}, p \in CallPolicies :
       ConnectToServerViaStdio(s, command, p)
  \/ \E s \in Servers, url \in {"https://api.example.com/mcp", "ftp://host/x"},
        p \in CallPolicies :
       ConnectToServerViaSSE(s, url, p)
  \/ InitializeConnections
  \/ InitCreated
  \/ InitCreateFailed
  \/ InitConnectOk
  \/ InitConnectFailed
  \/ InitToolsLoaded
  \/ InitToolsFailed

SpecConfig == InitConfig /\ [][NextConfig]_vars

(***************************************************************************)
(* The SSE transport factory: createSSETransport and                       *)
(* createNodeEventSourceTransport, followed between the awaits of their    *)
(* dynamic imports.                                                        *)
(***************************************************************************)
\* The options object handed to SSEClientTransport: requestInit absent,
\* requestInit: {} (no headers member), or requestInit: { headers }.
NoRequestInit == None

EmptyRequestInit == Some([headers |-> None])

RequestInit(headers) == Some([headers |-> Some(headers)])

\* new SSEClientTransport(new URL(url), options): the transport, or the
\* TypeError of new URL.
SSEClientTransport(url, eventSourceInit, requestInit) ==
  [ok |-> ParseURL(url).ok,
   transport |-> [url |-> url, eventSourceInit |-> eventSourceInit,
                  requestInit |-> requestInit]]

\* return, or the error leaves the factory.
Finish(f, r) ==
  IF r.ok THEN [f EXCEPT !.pc = "returned", !.result = Some(r.transport)]
  ELSE [f EXCEPT !.pc = "raised"]

\* Faulty variant: with no package left the factory raises.
LastResortRaises(f) == [f EXCEPT !.pc = "raised"]

\* The inner catch: the last resort fallback.
LastResort(f) ==
  Finish(f, SSEClientTransport(f.url, None, RequestInit(Get(f.headers))))

\* The outer catch: the import of the standard package is awaited.
FallBackToStandard(f) ==
  [f EXCEPT !.pc = "importStandard",
            !.tried = Append(f.tried, "eventsource")]

\* The arguments and the environments the factory is explored with.
FactoryUrls ==
  { "https://api.example.com/mcp", "http://localhost:8000/sse",
    "ftp://host/x", "not a url" }

Authorization == [key |-> "Authorization", value |-> "Bearer token"]

ApiKey == [key |-> "X-Api-Key", value |-> "k1"]

FactoryHeaders ==
  { None, Some(<<>>), Some(<<Authorization>>), Some(<<Authorization, ApiKey>>) }

Packages == {"extended-eventsource", "eventsource"}

InitFactory ==
  /\ connections = <<>>
  /\ processEnv = [n \in EnvNames |-> None]
  /\ lastCall = NoCall
  /\ Fresh
  /\ \E url \in FactoryUrls, headers \in FactoryHeaders,
        useNodeEventSource \in {None, Some(FALSE), Some(TRUE)},
        available \in SUBSET Packages :
       factory = FactoryCall("called", url, headers, useNodeEventSource,
                             available)

FactoryStep(f) ==
  /\ factory' = f
  /\ UNCHANGED << connections, sessionVars, justReturned, processEnv,
                  lastCall >>

\* createSSETransport up to its return or to the first import.
CreateSSETransport ==
  /\ factory.pc = "called"
  /\ FactoryStep(
       IF factory.headers = None
       THEN Finish(factory,
                   SSEClientTransport(factory.url, None, NoRequestInit))
       ELSE IF factory.useNodeEventSource = Some(TRUE)
       THEN [factory EXCEPT !.pc = "importExtended",
                            !.tried = <<"extended-eventsource">>]
       ELSE Finish(factory,
                   SSEClientTransport(factory.url, None,
                                      RequestInit(Get(factory.headers)))))

\* import("extended-eventsource") resolved.
ExtendedImported ==
  /\ factory.pc = "importExtended"
  /\ "extended-eventsource" \in factory.available
  /\ LET f == [factory EXCEPT !.eventSource = "extended"]
         r == SSEClientTransport(f.url, Some(<<>>), EmptyRequestInit)
     IN
     FactoryStep(IF r.ok THEN Finish(f, r) ELSE FallBackToStandard(f))

\* import("extended-eventsource") was rejected.
ExtendedUnavailable ==
  /\ factory.pc = "importExtended"
  /\ "extended-eventsource" \notin factory.available
  /\ FactoryStep(FallBackToStandard(factory))

\* import("eventsource") resolved.
StandardImported ==
  /\ factory.pc = "importStandard"
  /\ "eventsource" \in factory.available
  /\ LET f == [factory EXCEPT !.eventSource = "standard"]
         r == SSEClientTransport(f.url, None, RequestInit(Get(f.headers)))
     IN
     FactoryStep(IF r.ok THEN Finish(f, r) ELSE LastResort(f))

\* import("eventsource") was rejected.
StandardUnavailable ==
  /\ factory.pc = "importStandard"
  /\ "eventsource" \notin factory.available
  /\ FactoryStep(LastResort(factory))

NextFactory ==
  \/ CreateSSETransport
  \/ ExtendedImported
  \/ ExtendedUnavailable
  \/ StandardImported
  \/ StandardUnavailable

SpecFactory == InitFactory /\ [][NextFactory]_vars

TypeOK ==
  /\ init.cur \in 0..MaxT
  /\ \A s \in Servers : clients[s] \in 0..MaxT /\ transportInstances[s] \in 0..MaxT
  /\ \A t \in TIds : cyc[t].attempts \in 0..(MaxT + 1)

(***************************************************************************)
(* Queries and abbreviations used by the properties.                       *)
(***************************************************************************)
\* getTools([s]) is not empty.
ServesTools(s) == HasTools(serverNameToTools, s)

\* return this.serverNameToTools: the map initializeConnections() hands to
\* its caller is the registry object itself.
ReturnedMap == IF init.result = "alias" THEN serverNameToTools ELSE <<>>

Active(c) == cyc[c].pc # "none"

Finished(c) == cyc[c].pc \in {"connected", "gaveup", "raised"}

PolicyOf(c) == Get(Get(cyc[c].conn).restart)

\* The transports constructed by the attempts of cycle c.
OpenedBy(c) == { t \in TIds : transports[t].state # "unused" /\ transports[t].by = c }

ToolClients(s) ==
  { serverNameToTools[i].client :
      i \in { j \in 1..Len(serverNameToTools) :
                serverNameToTools[j].server = s } }

InLedger(t) == \E i \in 1..Len(cleanupFunctions) : cleanupFunctions[i] = t

\* Closure signals the transports of server s have given on their own.
Closures(s) ==
  Cardinality({ t \in TIds : transports[t].server = s
                             /\ transports[t].closedBy = "env" })

AllEmpty ==
  /\ \A s \in Servers : clients[s] = 0 /\ transportInstances[s] = 0
  /\ serverNameToTools = <<>>
  /\ cleanupFunctions = <<>>

(***************************************************************************)
(* C1.  A closure signalled by a transport because close() closed it never *)
(* starts a reconnect cycle: no cycle that has evicted its server and      *)
(* begun an attempt was started by such a closure.                         *)
(***************************************************************************)
C1_CloseStartsNoCycle ==
  \A c \in TIds :
    (Active(c) /\ cyc[c].attempts > 0) => cyc[c].cause # "close"

(***************************************************************************)
(* C2.  A reconnect cycle that was in progress while close() ran does not  *)
(* re-register its server: once both have finished, no transport of the    *)
(* cycle is in the session map, the tool registry or the transport map,    *)
(* and none is open without a close action in the ledger.                  *)
(***************************************************************************)
C2_CycleDoesNotReRegister ==
  \A c \in TIds :
    (cyc[c].sawClose /\ Finished(c) /\ closing.pc = "idle") =>
      \A t \in OpenedBy(c) :
        /\ clients[cyc[c].server] # t
        /\ transportInstances[cyc[c].server] # t
        /\ t \notin ToolClients(cyc[c].server)
        /\ (transports[t].state = "open" => InLedger(t))

(***************************************************************************)
(* C3.  At the moment close() returns, the session map, the tool registry  *)
(* (and with it the map initializeConnections() returned), the transport   *)
(* map and the cleanup ledger are all empty.                               *)
(***************************************************************************)
C3_CloseLeavesAllEmpty ==
  justReturned = "close" => AllEmpty /\ ReturnedMap = <<>>

C3_Witness ==
  /\ justReturned = "close"
  /\ init.result = "alias"
  /\ \E t \in TIds : transports[t].closedBy = "close"
  /\ \E c \in TIds : Active(c)

(***************************************************************************)
(* C4.  A server whose restart/reconnect policy is disabled or absent      *)
(* never enters the recovery path: no closure of one of its transports     *)
(* starts a cycle, and no transport of it is constructed by a cycle.       *)
(***************************************************************************)
C4_NoRecoveryWhenDisabled ==
  \A i \in 1..Len(connections) :
    ~Enabled(Conn(i).restart) =>
      /\ \A c \in TIds : cyc[c].server # Conn(i).name
      /\ \A t \in TIds :
           transports[t].server = Conn(i).name => transports[t].by = 0

C4_Witness ==
  \E i \in 1..Len(connections) :
    /\ Conn(i).restart # None
    /\ ~Enabled(Conn(i).restart)
    /\ \E t \in TIds : /\ transports[t].server = Conn(i).name
                       /\ transports[t].closedBy = "env"
                       /\ transports[t].signal = "fired"
                       /\ clients[Conn(i).name] = t

(***************************************************************************)
(* C5.  A cycle whose policy sets maxAttempts = N makes at most N          *)
(* attempts, stops (gave up) as soon as the N-th has failed, and makes no  *)
(* attempt at all when N = 0.                                              *)
(***************************************************************************)
C5_AtMostMaxAttempts ==
  \A c \in TIds :
    (Active(c) /\ PolicyOf(c).maxAttempts # None) =>
      LET N == Get(PolicyOf(c).maxAttempts) IN
        /\ cyc[c].attempts <= N
        /\ cyc[c].failed = N => cyc[c].pc = "gaveup"
        /\ N = 0 => cyc[c].pc = "gaveup" /\ OpenedBy(c) = {}

C5_Witness ==
  \E c \in TIds :
    /\ cyc[c].pc = "gaveup"
    /\ PolicyOf(c).maxAttempts = Some(2)
    /\ cyc[c].failed = 2

(***************************************************************************)
(* C6.  With maxAttempts absent the attempts are unlimited: the cycle      *)
(* never gives up.                                                         *)
(***************************************************************************)
C6_NeverGivesUpWhenAbsent ==
  \A c \in TIds :
    (Active(c) /\ PolicyOf(c).maxAttempts = None) => cyc[c].pc # "gaveup"

(***************************************************************************)
(* C7.  From the start of the first attempt of a cycle until an attempt's  *)
(* discovery completes, the registry holds no tools of the session the     *)
(* cycle evicted.                                                          *)
(***************************************************************************)
C7_NoStaleToolsDuringAttempts ==
  \A c \in TIds :
    cyc[c].pc \in {"creating", "connecting", "discovering"} =>
      cyc[c].prev \notin ToolClients(cyc[c].server)

(***************************************************************************)
(* C8.  No failure inside a reconnect cycle leaves the cycle: a failed     *)
(* attempt is followed by the next iteration or by giving up, never by an  *)
(* error raised out of attemptReconnect.                                   *)
(***************************************************************************)
C8_CycleNeverRaises ==
  \A c \in TIds :
    /\ cyc[c].pc # "raised"
    /\ cyc[c].failed > 0 =>
         cyc[c].pc \in {"wait", "creating", "connecting", "discovering",
                        "connected", "gaveup"}

C8_Witness ==
  \E c \in TIds :
    /\ cyc[c].pc = "gaveup"
    /\ cyc[c].failed >= 2
    /\ \E t \in OpenedBy(c) : transports[t].state = "open"
    /\ \E t \in OpenedBy(c) : transports[t].state = "failed"

(***************************************************************************)
(* C9.  Once a cycle of server s has exhausted its attempts, s stays       *)
(* absent from the tool queries for as long as the caller makes no further *)
(* initialisation call.  (Checked for the caller that made one call, which *)
(* had returned when the cycle gave up, and none since.)                   *)
(***************************************************************************)
C9_AbsentAfterExhaustion ==
  \A c \in TIds :
    ( /\ cyc[c].pc = "gaveup"
      /\ cyc[c].quiet
      /\ cyc[c].calls = initCalls
      /\ initCalls = 1 ) =>
        ~ServesTools(cyc[c].server)

(***************************************************************************)
(* C10.  With restart enabled, maxAttempts = N and delayMs = 0, N closure  *)
(* signals of the server's transports exhaust the attempts: afterwards the *)
(* server is absent from getTools().                                       *)
(***************************************************************************)
C10_ClosuresExhaustAttempts ==
  \A i \in 1..Len(connections) :
    LET s == Conn(i).name
        r == Conn(i).restart
    IN
    ( /\ Enabled(r)
      /\ Get(r).maxAttempts # None
      /\ Get(r).delayMs = Some(0)
      /\ Get(Get(r).maxAttempts) >= 1
      /\ Closures(s) >= Get(Get(r).maxAttempts)
      /\ initCalls = 1
      /\ init.pc = "idle"
      /\ closing.pc = "idle"
      /\ \A c \in TIds : cyc[c].server = s => Finished(c) ) =>
        ~ServesTools(s)

(***************************************************************************)
(* C10 as amended.  The attempt counter starts at zero in every cycle: a   *)
(* cycle with maxAttempts = N and delayMs = 0 never waits and never        *)
(* raises, gives up only when N attempts of its own have ended without     *)
(* leaving the server connected, and when all N have failed it has given   *)
(* up and no tool discovered by it is registered.                          *)
(***************************************************************************)
C10_CounterIsPerCycle ==
  \A c \in TIds :
    ( /\ Active(c)
      /\ PolicyOf(c).maxAttempts # None
      /\ PolicyOf(c).delayMs = Some(0) ) =>
        LET N == Get(PolicyOf(c).maxAttempts) IN
          /\ cyc[c].pc \notin {"raised", "wait"}
          /\ cyc[c].pc = "gaveup" => cyc[c].failed + cyc[c].empty = N
          /\ cyc[c].failed = N =>
               /\ cyc[c].pc = "gaveup"
               /\ \A t \in OpenedBy(c) : t \notin ToolClients(cyc[c].server)

C10_Witness ==
  \E c \in TIds :
    /\ cyc[c].pc = "gaveup"
    /\ PolicyOf(c).maxAttempts = Some(2)
    /\ PolicyOf(c).delayMs = Some(0)
    /\ cyc[c].failed = 2
    /\ Closures(cyc[c].server) = 2

\* The transports of server s constructed by initializeConnections().
InitTransports(s) ==
  { t \in TIds : /\ transports[t].state # "unused"
                 /\ transports[t].by = 0
                 /\ transports[t].server = s }

(***************************************************************************)
(* C11.  initializeConnections() takes the configured servers one at a     *)
(* time in configuration order: while it works on (or has raised at) the   *)
(* i-th server, it has constructed no transport for a later server and has *)
(* connected every earlier one; the first failure raises at once with the  *)
(* later servers never attempted, and an earlier server whose transport    *)
(* has not closed since is still in the session map and the tool registry. *)
(* (Checked for the first call of a behaviour.)                            *)
(***************************************************************************)
C11_SequentialInitialization ==
  (initCalls = 1 /\ init.result # "alias") =>
    /\ \A j \in 1..Len(connections) :
         /\ j > init.idx => InitTransports(Conn(j).name) = {}
         /\ j < init.idx =>
              /\ \E t \in InitTransports(Conn(j).name) :
                   transports[t].state \in {"open", "closed"}
              /\ (\A t \in TIds : transports[t].server = Conn(j).name
                                   => transports[t].state # "closed")
                   => /\ clients[Conn(j).name] # 0
                      /\ ServesTools(Conn(j).name)
    /\ init.result = "raised" => init.pc = "idle" /\ init.error # None

C11_Witness ==
  /\ initCalls = 1
  /\ init.result = "raised"
  /\ init.idx = 2
  /\ Len(connections) = 2
  /\ clients[Conn(1).name] # 0
  /\ ServesTools(Conn(1).name)
  /\ InitTransports(Conn(2).name) # {}

\* The server names of a configuration, the keys of a tool map.
Names(conns) == { conns[i].name : i \in 1..Len(conns) }

Keys(map) == { map[i].server : i \in 1..Len(map) }

(***************************************************************************)
(* C12.  When initializeConnections() completes successfully, the map it   *)
(* returns has exactly one key per currently configured server name and no *)
(* other key, whatever constructor, add-connections, connectToServerVia... *)
(* and initialise calls came before.                                       *)
(***************************************************************************)
C12_ReturnedMapHasConfiguredKeys ==
  (justReturned = "init" /\ init.result \in {"alias", "fresh"}) =>
    /\ Keys(ReturnedMap) = Names(connections)
    /\ Len(ReturnedMap) = Cardinality(Names(connections))

(***************************************************************************)
(* C13.  Every error raised by the initialisation of a server carries that *)
(* server's name: whether the connect or the tool discovery failed, and    *)
(* for the stdio and the sse variant alike, the error's serverName is the  *)
(* name of the server being initialised.                                   *)
(***************************************************************************)
C13_ErrorCarriesServerName ==
  init.result = "raised" =>
    /\ init.error # None
    /\ Get(init.error).serverName = Some(Conn(init.idx).name)

(***************************************************************************)
(* Validity of a raw descriptor as the specification words it: the two     *)
(* variants, their required fields and the types of their optional ones.   *)
(***************************************************************************)
ValidPolicy(o) ==
  \/ o = None
  \/ /\ Get(o).t = "object"
     /\ Get(o).v.enabled = None \/ Get(Get(o).v.enabled).t = "boolean"
     /\ Get(o).v.maxAttempts = None \/ Get(Get(o).v.maxAttempts).t = "number"
     /\ Get(o).v.delayMs = None \/ Get(Get(o).v.delayMs).t = "number"

ValidLocalProcess(c) ==
  /\ c.t = "object"
  /\ c.v.transport = None \/ IsLiteral(c.v.transport, "stdio")
  /\ c.v.command # None
  /\ Get(c.v.command).t = "string"
  /\ Get(c.v.command).v # ""
  /\ \/ c.v.args = None
     \/ /\ Get(c.v.args).t = "array"
        /\ \A i \in 1..Len(Get(c.v.args).v) : Get(c.v.args).v[i].t = "string"
  /\ \/ c.v.env = None
     \/ /\ Get(c.v.env).t = "object"
        /\ \A i \in 1..Len(Get(c.v.env).v) :
             Get(c.v.env).v[i].value.t = "string"
  /\ ValidPolicy(c.v.restart)

HttpURL(s) == ParseURL(s).ok /\ ParseURL(s).protocol \in {"http:", "https:"}

ValidRemoteStream(c) ==
  /\ c.t = "object"
  /\ IsLiteral(c.v.transport, "sse")
  /\ c.v.url # None
  /\ Get(c.v.url).t = "string"
  /\ HttpURL(Get(c.v.url).v)
  /\ ValidPolicy(c.v.reconnect)

ValidDescriptor(c) == ValidLocalProcess(c) \/ ValidRemoteStream(c)

\* The calls that validate a batch, and the batch such a call was given.
ValidatingOps ==
  {"constructor", "fromConfigFile", "addConnections", "addConfigFromFile"}

GivenBatch(call) ==
  IF call.file = NoFile THEN call.batch
  ELSE IF call.file.t = "object" /\ call.file.v.servers # None
       THEN Get(call.file.v.servers)
       ELSE <<>>

(***************************************************************************)
(* C14.  A malformed or ambiguous descriptor is fatal to the constructor   *)
(* or add call that supplied it: a call whose batch holds a descriptor     *)
(* that is not a valid LocalProcess or RemoteStream descriptor (one that   *)
(* is not an object included) fails, and a call that succeeds has stored a *)
(* descriptor for every name of its batch.                                 *)
(***************************************************************************)
C14_MalformedDescriptorIsFatal ==
  lastCall.op \in ValidatingOps =>
    LET b == GivenBatch(lastCall) IN
      /\ (\E i \in 1..Len(b) : ~ValidDescriptor(b[i].config)) => ~lastCall.ok
      /\ lastCall.ok => \A i \in 1..Len(b) : b[i].name \in Names(connections)

AddOps == {"addConnections", "addConfigFromFile"}

(***************************************************************************)
(* C15.  If addConnections or addConfigFromFile fails validation on a      *)
(* descriptor of its batch, the stored configuration after the failed call *)
(* is exactly the one before it: no descriptor of the batch is merged.     *)
(***************************************************************************)
C15_FailedAddLeavesConfiguration ==
  (lastCall.op \in AddOps /\ ~lastCall.ok) => connections = lastCall.before

C15_Witness ==
  /\ lastCall.op \in AddOps
  /\ ~lastCall.ok
  /\ lastCall.before # <<>>
  /\ Len(GivenBatch(lastCall)) = 2
  /\ ValidDescriptor(GivenBatch(lastCall)[1].config)
  /\ processConnections(<<GivenBatch(lastCall)[1]>>).conns
       # SelectSeq(lastCall.before,
                   LAMBDA d : d.name = GivenBatch(lastCall)[1].name)

\* The descriptor stored under a name (none: the empty sequence).
StoredAs(conns, name) == SelectSeq(conns, LAMBDA d : d.name = name)

\* The batch of a call as it reaches the validator: a file's descriptors
\* after the replacement of their placeholders.
ValidatorInput(call) ==
  IF call.file = NoFile THEN call.batch
  ELSE loadConfigFromFile(call.file, processEnv).servers

(***************************************************************************)
(* C16.  A successful addConnections or addConfigFromFile leaves every     *)
(* server name of its batch mapped to the newly validated descriptor       *)
(* (overwriting an earlier one of that name) and every other name mapped   *)
(* as before, and changes nothing in the session map, the tool registry    *)
(* and the cleanup ledger.                                                 *)
(***************************************************************************)
C16_SuccessfulAddMerges ==
  [][ ( /\ lastCall'.n = lastCall.n + 1
        /\ lastCall'.op \in AddOps
        /\ lastCall'.ok ) =>
      LET b == ValidatorInput(lastCall') IN
        /\ \A i \in 1..Len(b) :
             /\ StoredAs(connections', b[i].name) # <<>>
             /\ StoredAs(connections', b[i].name)
                  = processConnections(<<b[i]>>).conns
        /\ \A i \in 1..Len(connections) :
             (\A j \in 1..Len(b) : b[j].name # connections[i].name) =>
               StoredAs(connections', connections[i].name) = <<connections[i]>>
        /\ Names(connections')
             = Names(connections) \cup { b[i].name : i \in 1..Len(b) }
        /\ UNCHANGED << clients, serverNameToTools, cleanupFunctions >>
    ]_vars

(***************************************************************************)
(* C17.  Every descriptor stored in the configuration, after any sequence  *)
(* of constructor, addConnections, addConfigFromFile and                   *)
(* connectToServerVia... calls, has a transport discriminator consistent   *)
(* with its variant: "stdio" with a non-empty command and an args          *)
(* sequence, or "sse" with a valid absolute http / https URL.              *)
(***************************************************************************)
C17_StoredDescriptorsConsistent ==
  \A i \in 1..Len(connections) :
    LET d == connections[i] IN
      \/ /\ d.transport = "stdio"
         /\ d.command # None
         /\ Get(d.command) # ""
         /\ d.args # None
      \/ /\ d.transport = "sse"
         /\ d.url # None
         /\ HttpURL(Get(d.url))

\* What a placeholder ${NAME} is to become: the value of NAME if it is set
\* in the environment, and the placeholder itself if not.
Interpolated(value) ==
  IF EnvVarName(value) \in DOMAIN processEnv
     /\ processEnv[EnvVarName(value)] # None
  THEN Get(processEnv[EnvVarName(value)])
  ELSE value

(***************************************************************************)
(* C18.  For a descriptor with an env entry valued "${FOO}", however it    *)
(* reaches the validator (inline in the constructor, by addConnections, or *)
(* from a configuration file, with or without a transport field): if FOO   *)
(* is set in the environment the validated env[key] is FOO's value, and if *)
(* not the placeholder is preserved unchanged.  (Stated for environments   *)
(* in which no variable is set to the empty string.)                       *)
(***************************************************************************)
C18_EnvPlaceholderInterpolated ==
  ( /\ lastCall.op \in ValidatingOps
    /\ lastCall.ok
    /\ \A n \in EnvNames : processEnv[n] # Some("") ) =>
    LET b == GivenBatch(lastCall) IN
    \A i \in 1..Len(b) :
      ( /\ b[i].config.t = "object"
        /\ b[i].config.v.env # None
        /\ Get(b[i].config.v.env).t = "object" ) =>
        LET raw == Get(b[i].config.v.env).v
            stored == StoredAs(connections, b[i].name)
        IN
        \A k \in 1..Len(raw) :
          (raw[k].value.t = "string" /\ IsPlaceholder(raw[k].value.v)) =>
            /\ stored # <<>>
            /\ stored[1].env # None
            /\ Get(stored[1].env)[k].value = Interpolated(raw[k].value.v)

(***************************************************************************)
(* C19.  In every validated restart / reconnect policy maxAttempts, when   *)
(* present, is a positive integer and delayMs, when present, is a          *)
(* non-negative integer: a descriptor whose policy has maxAttempts <= 0 or *)
(* a negative delayMs is rejected by validation and is never stored.       *)
(* (The numbers of the model are integers.)                                *)
(***************************************************************************)
C19_PolicyNumbersInRange ==
  (lastCall.op \in ValidatingOps /\ lastCall.ok) =>
    \A i \in 1..Len(connections) :
      connections[i].restart # None =>
        LET p == Get(connections[i].restart) IN
          /\ p.maxAttempts = None \/ Get(p.maxAttempts) > 0
          /\ p.delayMs = None \/ Get(p.delayMs) >= 0

(***************************************************************************)
(* The tool queries.                                                       *)
(***************************************************************************)
\* The tool names a server exports, in the order discovery lists them; one
\* name is exported by both servers.
ToolNames(s) == IF s = "fs" THEN <<"read", "search">> ELSE <<"search">>

\* loadMcpTools(serverName, client): the tools array stored under the
\* server's key.
DiscoveredTools(s, c) ==
  [i \in 1..Len(ToolNames(s)) |->
     [name |-> ToolNames(s)[i], server |-> s, client |-> c]]

\* allTools.push(...tools) over a sequence of arrays.
RECURSIVE Flatten(_)
Flatten(arrays) ==
  IF arrays = <<>> THEN <<>> ELSE Head(arrays) \o Flatten(Tail(arrays))

\* this.serverNameToTools.get(serverName): None when there is no entry.
RegisteredTools(s) ==
  LET hits == SelectSeq(serverNameToTools, LAMBDA e : e.server = s) IN
  IF hits = <<>> THEN None
  ELSE Some(DiscoveredTools(hits[1].server, hits[1].client))

getAllToolsAsFlatArray ==
  Flatten([i \in 1..Len(serverNameToTools) |->
             DiscoveredTools(serverNameToTools[i].server,
                             serverNameToTools[i].client)])

\* Faulty variant: the filter is ignored.
getToolsFromServersUnfiltered(serverNames) == getAllToolsAsFlatArray

getToolsFromServers(serverNames) ==
  Flatten([i \in 1..Len(serverNames) |->
             IF RegisteredTools(serverNames[i]) # None
             THEN Get(RegisteredTools(serverNames[i]))
             ELSE <<>>])

getTools(servers) ==
  IF servers = None \/ Get(servers) = <<>>
  THEN getAllToolsAsFlatArray
  ELSE getToolsFromServers(Get(servers))

\* The filters the queries are explored with: one or two names, one of
\* which no configuration has.
FilterNames == Servers \cup {"other"}

Filters ==
  { <<a>> : a \in FilterNames } \cup
  { <<a, b>> : a \in FilterNames, b \in FilterNames }

\* The place of a server in the registry, of a tool in its server's
\* discovery.
RegistryIndex(s) ==
  CHOOSE i \in 1..Len(serverNameToTools) : serverNameToTools[i].server = s

DiscoveryIndex(tool) ==
  CHOOSE i \in 1..Len(ToolNames(tool.server)) :
    ToolNames(tool.server)[i] = tool.name

RECURSIVE SumOfLengths(_)
SumOfLengths(arrays) ==
  IF arrays = <<>> THEN 0 ELSE Len(Head(arrays)) + SumOfLengths(Tail(arrays))

(***************************************************************************)
(* C20.  getTools() without a filter returns the tools of every registered *)
(* server, the servers in registration order and each server's tools in    *)
(* discovery order; getTools(names) with a non-empty list returns only     *)
(* tools of the named servers, all of them for each occurrence of a name,  *)
(* nothing for a name with no registered tools, and never a tool of a      *)
(* server that is not named.                                               *)
(***************************************************************************)
C20_GetToolsOrderAndFilter ==
  /\ LET all == getTools(None) IN
       /\ Len(all) = SumOfLengths([i \in 1..Len(serverNameToTools) |->
                                     ToolNames(serverNameToTools[i].server)])
       /\ \A i \in 1..Len(serverNameToTools) :
            \A n \in 1..Len(ToolNames(serverNameToTools[i].server)) :
              \E p \in 1..Len(all) :
                all[p] = [name |-> ToolNames(serverNameToTools[i].server)[n],
                          server |-> serverNameToTools[i].server,
                          client |-> serverNameToTools[i].client]
       /\ \A p \in 1..Len(all) : \A q \in (p + 1)..Len(all) :
            \/ RegistryIndex(all[p].server) < RegistryIndex(all[q].server)
            \/ /\ all[p].server = all[q].server
               /\ DiscoveryIndex(all[p]) < DiscoveryIndex(all[q])
  /\ \A names \in Filters :
       LET some == getTools(Some(names)) IN
         /\ \A p \in 1..Len(some) :
              /\ \E i \in 1..Len(names) : names[i] = some[p].server
              /\ ServesTools(some[p].server)
              /\ \E q \in 1..Len(getTools(None)) : getTools(None)[q] = some[p]
         /\ Len(some) = SumOfLengths([i \in 1..Len(names) |->
                                        IF ServesTools(names[i])
                                        THEN ToolNames(names[i]) ELSE <<>>])

C20_Witness ==
  /\ Len(serverNameToTools) = 2
  /\ serverNameToTools[1].server = "search"
  /\ Len(getTools(None)) = 3
  /\ getTools(None)[1].server = "search"
  /\ Len(getTools(Some(<<"other", "fs">>))) = 2
  /\ getTools(Some(<<"other">>)) = <<>>

\* Faulty variant: the last matching entry wins.
getServerForToolLast(toolName) ==
  LET hits == { i \in 1..Len(serverNameToTools) :
                  \E n \in 1..Len(ToolNames(serverNameToTools[i].server)) :
                    ToolNames(serverNameToTools[i].server)[n] = toolName }
  IN
  IF hits = {} THEN None
  ELSE Some(serverNameToTools[CHOOSE i \in hits : \A j \in hits : j <= i].server)

\* for (const [serverName, tools] of this.serverNameToTools.entries())
\*   if (tools.some((tool) => tool.name === toolName)) return serverName;
\* return undefined;
RECURSIVE getServerForToolFrom(_, _)
getServerForToolFrom(toolName, i) ==
  IF i > Len(serverNameToTools) THEN None
  ELSE LET e == serverNameToTools[i]
           tools == DiscoveredTools(e.server, e.client)
       IN
       IF \E n \in 1..Len(tools) : tools[n].name = toolName
       THEN Some(e.server)
       ELSE getServerForToolFrom(toolName, i + 1)

getServerForTool(toolName) == getServerForToolFrom(toolName, 1)

\* The tool names the query is explored with: one exported by one server,
\* one exported by both, one exported by none.
QueriedToolNames == {"read", "search", "write"}

\* The registry entries whose tool list holds a tool of the name.
Holders(toolName) ==
  { i \in 1..Len(serverNameToTools) :
      \E tool \in { getAllToolsAsFlatArray[p] :
                      p \in 1..Len(getAllToolsAsFlatArray) } :
        /\ tool.name = toolName
        /\ tool.server = serverNameToTools[i].server }

(***************************************************************************)
(* C21.  getServerForTool(name) returns the server of the first registry   *)
(* entry, in iteration order, that holds a tool of that name: a server     *)
(* that does hold such a tool whenever one exists, and absent otherwise,   *)
(* in every state initialise, reconnect and close operations lead to.      *)
(***************************************************************************)
C21_FirstRegisteredServerWins ==
  \A toolName \in QueriedToolNames :
    LET r == getServerForTool(toolName) IN
      /\ Holders(toolName) = {} <=> r = None
      /\ r # None =>
           \E i \in Holders(toolName) :
             /\ serverNameToTools[i].server = Get(r)
             /\ \A j \in Holders(toolName) : i <= j

C21_Witness ==
  /\ Len(serverNameToTools) = 2
  /\ serverNameToTools[1].server = "search"
  /\ serverNameToTools[2].server = "fs"
  /\ getServerForTool("search") = Some("search")
  /\ getServerForTool("read") = Some("fs")
  /\ getServerForTool("write") = None
  /\ \E c \in TIds : cyc[c].pc = "connected" /\ cyc[c].server = "fs"

\* The call is over.
FactoryDone == factory.pc \in {"returned", "raised"}

\* The descriptor is a RemoteStream descriptor with custom headers.
RemoteStreamWithHeaders ==
  UrlAccepted(factory.url) /\ factory.headers # None

C29_ReturnedTransportCarriesHeaders ==
  ( /\ RemoteStreamWithHeaders
    /\ Get(factory.headers) # <<>>
    /\ factory.pc = "returned" ) =>
    Get(factory.result).requestInit = RequestInit(Get(factory.headers))

\* The number of close actions of transport t in the ledger.
LedgerCount(t) ==
  Cardinality({ i \in 1..Len(cleanupFunctions) : cleanupFunctions[i] = t })

\* The index of the close action close() executed last.
Executed == IF closing.pc = "running" THEN closing.idx ELSE 0

C23_Step ==
  /\ \A t \in TIds :
       /\ (transports[t].state = "new" /\ transports'[t].state = "open") =>
            cleanupFunctions' = Append(cleanupFunctions, t)
       /\ LedgerCount(t)' <= 1
       /\ transports'[t].state = "open" => InLedger(t)'
  /\ (closing' # closing /\ closing'.pc = "running") =>
       /\ closing'.idx = Executed + 1
       /\ closing'.idx <= Len(cleanupFunctions)
       /\ transports'[cleanupFunctions[closing'.idx]].state # "open"
  /\ justReturned' = "close" =>
       /\ Executed = Len(cleanupFunctions)
       /\ \A t \in TIds :
            transports[t].state = "open" =>
              /\ InLedger(t)
              /\ transports'[t].state = "closed"
       /\ \A t \in TIds : transports'[t].state # "open"

(***************************************************************************)
(* C23.  Every session that is opened appends exactly one close action to  *)
(* the cleanup ledger, so that an open transport always has one and no     *)
(* transport has two; close() executes the actions of the ledger one by    *)
(* one in append order, each once, and returns only after the last: when   *)
(* it returns, every transport that had been connected has been closed.    *)
(***************************************************************************)
C23_EveryCloseActionRunsOnce == [][C23_Step]_vars

C23_Witness ==
  /\ justReturned = "close"
  /\ Cardinality({ t \in TIds : transports[t].closedBy = "close" }) = 2
  /\ \E t \in TIds : transports[t].closedBy = "env"

\* The registry entry of server s (None when there is none).
RegistryEntry(s) ==
  LET hits == SelectSeq(serverNameToTools, LAMBDA e : e.server = s) IN
  IF hits = <<>> THEN None ELSE Some(hits[1])

\* A discovery for server s is awaited by initializeConnections() or by a
\* reconnect cycle.
Discovering(s) ==
  \/ init.pc = "discovering" /\ Conn(init.idx).name = s
  \/ \E c \in TIds : cyc[c].pc = "discovering" /\ cyc[c].server = s

\* The policy configured for server s is disabled or absent.
RecoveryOff(s) ==
  \E i \in 1..Len(connections) :
    Conn(i).name = s /\ ~Enabled(Conn(i).restart)

C24_Step ==
  /\ \A s \in Servers :
       /\ (RegistryEntry(s)' # RegistryEntry(s) /\ RegistryEntry(s)' # None) =>
            /\ Discovering(s)
            /\ \/ init.pc = "discovering" /\ Get(RegistryEntry(s)').client = init.cur
               \/ \E c \in TIds : /\ cyc[c].pc = "discovering"
                                  /\ Get(RegistryEntry(s)').client = cyc[c].cur
       /\ (RegistryEntry(s) # None /\ RegistryEntry(s)' = None) =>
            \/ justReturned' = "close"
            \/ \E t \in TIds : /\ cyc[t].pc = "none"
                               /\ cyc'[t].pc # "none"
                               /\ cyc'[t].server = s
  /\ \A t \in TIds :
       ( /\ transports[t].state = "open"
         /\ transports'[t].state = "closed"
         /\ RecoveryOff(transports[t].server) ) =>
           /\ clients' = clients
           /\ serverNameToTools' = serverNameToTools
           /\ transportInstances' = transportInstances
           /\ cyc' = cyc

(***************************************************************************)
(* C24.  A registry entry of server s appears or changes only in the step  *)
(* in which a discovery for s completes, and disappears only when close()  *)
(* returns or when a reconnect cycle for s starts; the closure of a        *)
(* transport of a server whose policy is disabled or absent leaves the     *)
(* session map, the tool registry and the transport map unchanged.         *)
(***************************************************************************)
C24_RegistryChangesOnlyByDiscoveryOrTeardown == [][C24_Step]_vars

C24_Witness ==
  \E t \in TIds :
    /\ transports[t].state = "closed"
    /\ transports[t].closedBy = "env"
    /\ RecoveryOff(transports[t].server)
    /\ clients[transports[t].server] = t
    /\ transportInstances[transports[t].server] = t
    /\ RegistryEntry(transports[t].server) =
         Some([server |-> transports[t].server, client |-> t])

(***************************************************************************)
(* C25.  The tool list registered for a server was discovered through the  *)
(* client that is stored as the server's session: the registry holds no    *)
(* tools of a session that has been evicted or replaced.  (Checked for the  *)
(* caller that makes one initialisation call.)                             *)
(***************************************************************************)
C25_RegisteredToolsBelongToSession ==
  initCalls <= 1 =>
    \A i \in 1..Len(serverNameToTools) :
      serverNameToTools[i].client = clients[serverNameToTools[i].server]

C26_Step ==
  /\ \A c \in TIds :
       /\ (cyc[c].pc # "connected" /\ cyc'[c].pc = "connected") =>
            LET s == cyc[c].server
                t == cyc[c].cur
            IN
            /\ cyc[c].pc = "discovering"
            /\ clients'[s] # 0
            /\ clients'[s] # cyc[c].prev
            /\ t # cyc[c].prev
            /\ RegistryEntry(s)' = Some([server |-> s, client |-> t])
            /\ transports'[t].state = "open"
            /\ transports'[t].hook = cyc[c].conn
       /\ cyc[c].pc = "connected" => cyc'[c] = cyc[c]
  /\ \A t \in TIds :
       ( /\ transports[t].by # 0
         /\ transports[t].state = "open"
         /\ transports'[t].state = "closed"
         /\ transports'[t].closedBy = "env"
         /\ clients[transports[t].server] # 0 ) =>
           /\ cyc[t].pc = "none"
           /\ cyc'[t].pc # "none"
           /\ cyc'[t].server = transports[t].server
           /\ cyc'[t].prev = clients[transports[t].server]
           /\ cyc'[t].failed = 0
           /\ cyc'[t].attempts =
                IF cyc'[t].pc = "gaveup" THEN 0 ELSE 1

(***************************************************************************)
(* C26.  When an attempt of a reconnect cycle for s succeeds the cycle     *)
(* makes no further attempt and ends connected: s has a session client     *)
(* that is not the evicted one, the tools the attempt discovered are       *)
(* registered, and the attempt's transport is open with the close hook     *)
(* installed; when a transport opened by a cycle closes later while s has  *)
(* a session, a new cycle starts whose attempt counter starts afresh.      *)
(***************************************************************************)
C26_SuccessfulAttemptEndsCycle == [][C26_Step]_vars

C26_Witness ==
  \E c \in TIds, t \in TIds :
    /\ cyc[c].pc = "connected"
    /\ transports[t].by = c
    /\ transports[t].state = "closed"
    /\ cyc[t].pc \in {"creating", "connecting", "discovering"}
    /\ cyc[t].server = cyc[c].server
    /\ cyc[t].prev = t
    /\ cyc[t].attempts = 1

\* The close actions in the ledger that close a transport of server s.
LedgerEntries(s) ==
  Cardinality({ i \in 1..Len(cleanupFunctions) :
                  transports[cleanupFunctions[i]].server = s })

\* The reconnect cycles of server s that ended connected.
SuccessfulReconnects(s) ==
  Cardinality({ c \in TIds : cyc[c].server = s /\ cyc[c].pc = "connected" })

\* No close() is running and none has emptied the ledger since a transport
\* was connected.
NoShutdownYet ==
  /\ closing.pc = "idle"
  /\ \A t \in TIds : transports[t].state \in {"open", "closed"} => InLedger(t)

C27_Step ==
  justReturned' # "close" =>
    /\ Len(cleanupFunctions') >= Len(cleanupFunctions)
    /\ SubSeq(cleanupFunctions', 1, Len(cleanupFunctions)) = cleanupFunctions

\* Reconnect teardown removes nothing from the ledger: until close()
\* returns, the ledger only grows at its end.
LedgerOnlyGrows == [][C27_Step]_vars

(***************************************************************************)
(* C27.  After k successful reconnects of server s, with no shutdown in    *)
(* between, the ledger holds k+1 close actions for s: one for the live     *)
(* session and k for prior incarnations.  (Checked once initialisation has *)
(* returned and no cycle of s is in progress, for the caller that makes    *)
(* one initialisation call.)                                               *)
(***************************************************************************)
C27_LedgerHoldsOnePerReconnect ==
  \A i \in 1..Len(connections) :
    LET s == Conn(i).name IN
    ( /\ initCalls = 1
      /\ init.result = "alias"
      /\ NoShutdownYet
      /\ \A c \in TIds : cyc[c].server = s => Finished(c) ) =>
        LedgerEntries(s) = SuccessfulReconnects(s) + 1

(***************************************************************************)
(* C28.  getTools(names) filters to the named servers for every list of    *)
(* names: each tool it returns belongs to a server that is named, so that  *)
(* the empty list yields the empty sequence and a name listed twice brings *)
(* in no tool of a server that is not named.                               *)
(***************************************************************************)
C28_FilterHoldsForEveryList ==
  \A names \in Filters \cup {<<>>} :
    LET tools == getTools(Some(names)) IN
      /\ \A p \in 1..Len(tools) :
           \E i \in 1..Len(names) : names[i] = tools[p].server
      /\ names = <<>> => tools = <<>>

(***************************************************************************)
(* C30.  The key sets of the three supervisor maps are nested: a server    *)
(* with registered tools has a session client, and a server with a session *)
(* client has a stored transport handle.                                   *)
(***************************************************************************)
C30_MapKeysNested ==
  \A s \in Servers :
    /\ ServesTools(s) => clients[s] # 0
    /\ clients[s] # 0 => transportInstances[s] # 0

\* What a failed attempt for server s, with client t (0 when no client was
\* constructed), may leave in the session map.
NotLeftBy(s, t) ==
  IF t # 0 THEN clients'[s] # t ELSE clients'[s] = clients[s]

C31_Step ==
  /\ (init.pc # "idle" /\ init'.pc = "idle" /\ init'.result = "raised") =>
       NotLeftBy(Conn(init.idx).name, init.cur)
  /\ \A c \in TIds :
       (cyc[c].pc # "none" /\ cyc'[c].failed = cyc[c].failed + 1) =>
         NotLeftBy(cyc[c].server, cyc[c].cur)

(***************************************************************************)
(* C31.  When a connect-and-discover attempt for server s fails, in        *)
(* initializeConnections() or in a reconnect cycle, at the construction of *)
(* the transport, at connect or at tool discovery, the attempt leaves s    *)
(* out of the session map: after the failure the client of the attempt is  *)
(* not the session of s.                                                   *)
(***************************************************************************)
C31_FailedAttemptLeavesNoSession == [][C31_Step]_vars

C32_Step ==
  \A t \in TIds :
    ( /\ transports[t].signal # "fired"
      /\ transports'[t].signal = "fired"
      /\ clients[transports[t].server] # 0
      /\ clients[transports[t].server] # t ) =>
        /\ clients'[transports[t].server] = clients[transports[t].server]
        /\ cyc'[t] = cyc[t]

(***************************************************************************)
(* C32.  The closure signal of a transport that is not the transport of    *)
(* the session currently stored for its server (a later initialisation or  *)
(* reconnect superseded it) does not evict that session and starts no      *)
(* reconnect cycle.                                                        *)
(***************************************************************************)
C32_StaleClosureIsIgnored == [][C32_Step]_vars

\* The transports of server s that have been connected and not yet closed.
OpenTransports(s) ==
  { t \in TIds : transports[t].server = s /\ transports[t].state = "open" }

(***************************************************************************)
(* C33.  At any time each server has at most one transport that has been   *)
(* connected and not yet closed.                                           *)
(***************************************************************************)
C33_AtMostOneOpenTransport ==
  \A s \in Servers : Cardinality(OpenTransports(s)) <= 1

C34_Step ==
  /\ closing'.pc \in {"idle", "running"}
  /\ (closing' # closing /\ closing'.pc = "running") =>
       /\ closing'.idx = Executed + 1
       /\ closing'.idx <= Len(cleanupFunctions)
  /\ justReturned' = "close" =>
       /\ Executed = Len(cleanupFunctions)
       /\ closing'.pc = "idle"
       /\ AllEmpty'
  /\ (closing.pc = "idle" /\ AllEmpty /\ closing' # closing) =>
       justReturned' = "close"
  /\ (closing.pc = "idle" /\ AllEmpty /\ justReturned' = "close") =>
       /\ transports' = transports
       /\ UNCHANGED << clients, serverNameToTools, cleanupFunctions,
                       transportInstances, connections >>

(***************************************************************************)
(* C34.  close() never raises: when a cleanup action of the ledger fails,  *)
(* the failure is caught, the remaining actions are still executed in      *)
(* order, and when close() returns the ledger and the three maps are       *)
(* empty; close() on a supervisor that is already closed executes no       *)
(* cleanup action and changes nothing.                                     *)
(***************************************************************************)
C34_CloseNeverRaises == [][C34_Step]_vars

C34_Witness ==
  /\ justReturned = "close"
  /\ AllEmpty
  /\ initCalls = 1
  /\ transports[1].server = "fs"
  /\ transports[1].by = 0
  /\ transports[1].state = "open"
  /\ transports[2].server = "search"
  /\ transports[2].by = 0
  /\ transports[2].closedBy = "close"

====
